---- MODULE Spec2Model ----
(***************************************************************************)
(* Response construction and delivery core of the JSON-RPC server          *)
(* (core/src/server/helpers.rs): BoundedWriter, MethodResponse,            *)
(* BatchResponseBuilder and MethodSink, and the subscription tasks of      *)
(* tests/tests/helpers.rs that write to a sink.                            *)
(*                                                                         *)
(* Byte strings are TLA+ strings: Len is the byte length, \o is            *)
(* extend_from_slice / push_str, SubSeq takes a slice.  Only ASCII text    *)
(* that JSON does not escape is used, so one character is one byte.        *)
(***************************************************************************)
EXTENDS Integers, Sequences, FiniteSets, TLC

VARIABLES
    writer,     \* SpecWriter: the BoundedWriter {max_len, buf}, or Consumed
    wlog,       \* SpecWriter: the calls made on the writer, each with what it returned
    call,       \* SpecResponse: the arguments of the last MethodResponse::response call
    resp,       \* SpecResponse: the MethodResponse that call returned
    builder,    \* SpecBatch: the BatchResponseBuilder {result, max_response_size}, or Consumed
    ctor,       \* SpecBatch: how the builder was constructed
    entries,    \* SpecBatch: bodies of the responses appended successfully, in order
    lastAppend, \* SpecBatch: the last append call and what it returned
    rejected,   \* SpecBatch: TRUE once an append on this builder returned Err
    appends,    \* SpecBatch: the number of append calls made on this builder
    batch,      \* SpecBatch: the BatchResponse returned by finish, or NoBatch
    queue,      \* SpecSink: the messages in the channel, oldest first
    permits,    \* SpecSink: the free slots of the channel (its semaphore's permits)
    waiters,    \* SpecSink: the producers suspended for a slot, first come first
    rx_closed,  \* SpecSink: TRUE once the consumer (the Receiver) was dropped
    pc,         \* SpecSink: where each producer is: idle, suspended in a call, holding a Permit
    ret,        \* SpecSink: the last call that completed: who made it and what it returned
    capacity,   \* SpecSink: the number of slots the channel was created with
    pump,       \* SpecPump: where pipe_from_stream is, and how it returned
    upstream,   \* SpecPump: the stream: all its items, those not yet taken, whether the interval has fired
    frames      \* SpecPump: the frames the pump has sent into the sink, in order

vars == <<writer, wlog, call, resp, builder, ctor, entries, lastAppend, rejected, appends, batch,
          queue, permits, waiters, rx_closed, pc, ret, capacity, pump, upstream, frames>>

writerVars == <<writer, wlog>>
responseVars == <<call, resp>>
batchVars == <<builder, ctor, entries, lastAppend, rejected, appends, batch>>
sinkVars == <<queue, permits, waiters, rx_closed, pc, ret, capacity>>
pumpVars == <<pump, upstream, frames>>

(***************************************************************************)
(* Bounds of the model.                                                    *)
(***************************************************************************)
MaxWriterCap == 4      \* BoundedWriter capacities 0..MaxWriterCap in SpecWriter
MaxWriteLen == 2       \* a single write call carries 0..MaxWriteLen bytes
MaxWrites == 3         \* calls made on one BoundedWriter in SpecWriter
MaxPayload == 3        \* result strings "a".repeat(0..MaxPayload)
MaxRespCap == 45       \* max_response_size 0..MaxRespCap in SpecResponse
MaxBatchCap == 80      \* batch limits 0..MaxBatchCap in SpecBatch
MaxAppends == 3        \* append calls made on one builder in SpecBatch
NumProducers == 2      \* clones of the MethodSink in SpecSink
MaxChannel == 1        \* channel capacities 1..MaxChannel in SpecSink

(***************************************************************************)
(* Text helpers.                                                           *)
(***************************************************************************)
\* A value that was moved out of (into_bytes, finish), no call made, no batch returned
Consumed == [consumed |-> TRUE]
NoCall == [op |-> "none"]
NoBatch == [none |-> TRUE]

Max(a, b) == IF a >= b THEN a ELSE b

RECURSIVE Repeat(_, _)
\* str::repeat
Repeat(s, n) == IF n = 0 THEN "" ELSE s \o Repeat(s, n - 1)

Digit(d) ==
    CASE d = 0 -> "0" [] d = 1 -> "1" [] d = 2 -> "2" [] d = 3 -> "3" [] d = 4 -> "4"
      [] d = 5 -> "5" [] d = 6 -> "6" [] d = 7 -> "7" [] d = 8 -> "8" [] d = 9 -> "9"

RECURSIVE Display(_)
\* format!("{}", n) of an unsigned integer: its decimal digits
Display(n) == IF n < 10 THEN Digit(n) ELSE Display(n \div 10) \o Digit(n % 10)

\* serde_json's text of a string that needs no escaping
JsonStr(s) == "\"" \o s \o "\""

(***************************************************************************)
(* Id and the values being serialized.                                     *)
(***************************************************************************)
IdNull == [kind |-> "Null"]
IdNumber(n) == [kind |-> "Number", n |-> n]
IdStr(s) == [kind |-> "Str", s |-> s]

\* serde_json's text of an Id
IdText(id) ==
    CASE id.kind = "Null" -> "null"
      [] id.kind = "Number" -> Display(id.n)
      [] id.kind = "Str" -> JsonStr(id.s)

\* A result whose Serialize impl writes a JSON string, and one whose Serialize
\* impl returns an error of its own (not an io error).
ResultStr(s) == [kind |-> "Str", s |-> s]
ResultBad == [kind |-> "Bad"]

(***************************************************************************)
(* BoundedWriter                                                           *)
(***************************************************************************)
BoundedWriter_new(max_len) == [max_len |-> max_len, buf |-> ""]

into_bytes(w) == w.buf

\* The mutant of write: appends what fits and reports the error afterwards.
write_partial(w, buf) ==
    LET len == Len(w.buf) + Len(buf) IN
    IF w.max_len >= len
    THEN [w |-> [w EXCEPT !.buf = @ \o buf], ok |-> TRUE, n |-> Len(buf)]
    ELSE [w |-> [w EXCEPT !.buf = @ \o SubSeq(buf, 1, Max(0, w.max_len - Len(w.buf)))],
          ok |-> FALSE, n |-> 0]

\* The mutant of write: a write that fills the writer exactly is rejected.
write_rejects_exact_fit(w, buf) ==
    LET len == Len(w.buf) + Len(buf) IN
    IF w.max_len > len
    THEN [w |-> [w EXCEPT !.buf = @ \o buf], ok |-> TRUE, n |-> Len(buf)]
    ELSE [w |-> w, ok |-> FALSE, n |-> 0]

\* <&mut BoundedWriter as io::Write>::write: the writer after the call and the
\* io::Result (ok with the number of bytes, or the OutOfMemory error).
write(w, buf) ==
    LET len == Len(w.buf) + Len(buf) IN
    IF w.max_len >= len
    THEN [w |-> [w EXCEPT !.buf = @ \o buf], ok |-> TRUE, n |-> Len(buf)]
    ELSE [w |-> w, ok |-> FALSE, n |-> 0]

\* <&mut BoundedWriter as io::Write>::flush
flush(w) == [w |-> w, ok |-> TRUE, n |-> 0]

(***************************************************************************)
(* serde_json::to_writer over a BoundedWriter                              *)
(***************************************************************************)
RECURSIVE write_all(_, _)
\* io::Write::write_all (the default method): calls write until the whole
\* buffer is taken; Ok(0) or an error from write ends it with an io error.
write_all(w, buf) ==
    IF buf = "" THEN [w |-> w, ok |-> TRUE]
    ELSE LET r == write(w, buf) IN
         IF ~r.ok \/ r.n = 0 THEN [w |-> r.w, ok |-> FALSE]
         ELSE write_all(r.w, SubSeq(buf, r.n + 1, Len(buf)))

\* The write calls serde_json's compact serializer makes for a string without
\* escapes: the opening quote, the contents in one piece (none when the string
\* is empty), the closing quote.
StrPieces(s) == IF s = "" THEN <<"\"", "\"">> ELSE <<"\"", s, "\"">>

\* The write calls for one key of a struct: the comma unless it is the first,
\* the key as a string, the colon.
KeyPieces(name, first) ==
    (IF first THEN <<>> ELSE <<",">>) \o StrPieces(name) \o <<":">>

\* The write calls for an Id: null and a number are written in one piece.
IdPieces(id) ==
    CASE id.kind = "Null" -> <<"null">>
      [] id.kind = "Number" -> <<Display(id.n)>>
      [] id.kind = "Str" -> StrPieces(id.s)

\* The pieces the serializer writes for Response::new(result, id), one write
\* call each, and whether the result's own Serialize impl then fails: the
\* fields are written in declaration order, so a failing result stops after
\* the colon of "result".
Response_new(result, id) ==
    LET head == <<"{">> \o KeyPieces("jsonrpc", TRUE) \o StrPieces("2.0")
                \o KeyPieces("result", FALSE)
    IN  IF result.kind = "Str"
        THEN [pieces |-> head \o StrPieces(result.s) \o KeyPieces("id", FALSE)
                         \o IdPieces(id) \o <<"}">>,
              fails |-> FALSE]
        ELSE [pieces |-> head, fails |-> TRUE]

RECURSIVE write_pieces(_, _)
write_pieces(w, pieces) ==
    IF pieces = <<>> THEN [w |-> w, ok |-> TRUE]
    ELSE LET r == write_all(w, Head(pieces)) IN
         IF r.ok THEN write_pieces(r.w, Tail(pieces)) ELSE r

\* The mutant of to_writer: does not pass on the error of a failed write.
to_writer_swallows_io(w, value) ==
    LET r == write_pieces(w, value.pieces) IN
    IF value.fails THEN [w |-> r.w, err |-> "data"]
    ELSE [w |-> r.w, err |-> "none"]

\* serde_json::to_writer(&mut writer, &value): err is "none", "io" (a write
\* failed; Error::is_io) or "data" (the value's Serialize impl failed).
to_writer(w, value) ==
    LET r == write_pieces(w, value.pieces) IN
    IF ~r.ok THEN [w |-> r.w, err |-> "io"]
    ELSE IF value.fails THEN [w |-> r.w, err |-> "data"]
    ELSE [w |-> r.w, err |-> "none"]

(***************************************************************************)
(* Error envelopes                                                         *)
(***************************************************************************)
OVERSIZED_RESPONSE_CODE == -32702
OVERSIZED_RESPONSE_MSG == "Response is too big"
INVALID_REQUEST_CODE == -32600
INVALID_REQUEST_MSG == "Invalid request"
INTERNAL_ERROR_CODE == -32603
INTERNAL_ERROR_MSG == "Internal error"

\* Option<String>: None and Some(s)
NoData == [some |-> FALSE]
SomeData(s) == [some |-> TRUE, s |-> s]

\* ErrorObject::owned(code, message, data) / ErrorObject::from(ErrorCode)
ErrorObject(code, message, data) == [code |-> code, message |-> message, data |-> data]

\* format!("{}", n) of a signed integer
DisplayInt(n) == IF n < 0 THEN "-" \o Display(-n) ELSE Display(n)

\* serde_json::to_string(&ErrorResponse::borrowed(err, id)); the data field is
\* skipped when it is None.
ErrorResponse_to_string(err, id) ==
    "{\"jsonrpc\":\"2.0\",\"error\":{\"code\":" \o DisplayInt(err.code)
    \o ",\"message\":" \o JsonStr(err.message)
    \o (IF err.data.some THEN ",\"data\":" \o JsonStr(err.data.s) ELSE "")
    \o "},\"id\":" \o IdText(id) \o "}"

(***************************************************************************)
(* MethodResponse                                                          *)
(***************************************************************************)
\* The mutant of response: takes the io branch for the internal error.
response_is_io_swapped(id, result, max_response_size) ==
    LET writer0 == BoundedWriter_new(max_response_size)
        r == to_writer(writer0, Response_new(result, id))
    IN  IF r.err = "none"
        THEN [result |-> into_bytes(r.w), success |-> TRUE]
        ELSE IF r.err # "io"
        THEN LET data == SomeData("Exceeded max limit of " \o Display(max_response_size))
                 err == ErrorObject(OVERSIZED_RESPONSE_CODE, OVERSIZED_RESPONSE_MSG, data)
             IN [result |-> ErrorResponse_to_string(err, id), success |-> FALSE]
        ELSE LET err == ErrorObject(INTERNAL_ERROR_CODE, INTERNAL_ERROR_MSG, NoData)
             IN [result |-> ErrorResponse_to_string(err, id), success |-> FALSE]

\* The mutant of response: on a capacity error it keeps what the writer took.
response_truncating(id, result, max_response_size) ==
    LET writer0 == BoundedWriter_new(max_response_size)
        r == to_writer(writer0, Response_new(result, id))
    IN  IF r.err = "none"
        THEN [result |-> into_bytes(r.w), success |-> TRUE]
        ELSE [result |-> into_bytes(r.w), success |-> FALSE]

\* MethodResponse::response(id, result, max_response_size)
response(id, result, max_response_size) ==
    LET writer0 == BoundedWriter_new(max_response_size)
        r == to_writer(writer0, Response_new(result, id))
    IN  IF r.err = "none"
        THEN [result |-> into_bytes(r.w), success |-> TRUE]
        ELSE IF r.err = "io"
        THEN LET data == SomeData("Exceeded max limit of " \o Display(max_response_size))
                 err == ErrorObject(OVERSIZED_RESPONSE_CODE, OVERSIZED_RESPONSE_MSG, data)
             IN [result |-> ErrorResponse_to_string(err, id), success |-> FALSE]
        ELSE LET err == ErrorObject(INTERNAL_ERROR_CODE, INTERNAL_ERROR_MSG, NoData)
             IN [result |-> ErrorResponse_to_string(err, id), success |-> FALSE]

\* MethodResponse::error(id, err)
MethodResponse_error(id, err) ==
    [result |-> ErrorResponse_to_string(err, id), success |-> FALSE]

(***************************************************************************)
(* BatchResponse and BatchResponseBuilder                                  *)
(***************************************************************************)
\* BatchResponse::error(id, err)
BatchResponse_error(id, err) ==
    [result |-> ErrorResponse_to_string(err, id), success |-> FALSE]

\* ErrorObject::from(ErrorCode::InvalidRequest)
InvalidRequest == ErrorObject(INVALID_REQUEST_CODE, INVALID_REQUEST_MSG, NoData)

\* String::pop: drops the last character, if there is one
Pop(s) == IF s = "" THEN "" ELSE SubSeq(s, 1, Len(s) - 1)

\* BatchResponseBuilder::new_with_limit(limit)
new_with_limit(limit) == [result |-> "[", max_response_size |-> limit]

\* <BatchResponseBuilder as Default>::default(), derived: an empty String and 0
BatchResponseBuilder_default == [result |-> "", max_response_size |-> 0]

\* The mutant of append: forgets the byte of the separator.
append_no_separator_byte(b, rsp) ==
    LET len == Len(rsp.result) + Len(b.result) IN
    IF len > b.max_response_size
    THEN [b |-> b, ok |-> FALSE, err |-> BatchResponse_error(IdNull, InvalidRequest)]
    ELSE [b |-> [b EXCEPT !.result = (@ \o rsp.result) \o ","],
          ok |-> TRUE, err |-> NoBatch]

\* The mutant of append: rejects a batch that fills the limit exactly.
append_rejects_at_limit(b, rsp) ==
    LET len == Len(rsp.result) + Len(b.result) + 1 IN
    IF len >= b.max_response_size
    THEN [b |-> b, ok |-> FALSE, err |-> BatchResponse_error(IdNull, InvalidRequest)]
    ELSE [b |-> [b EXCEPT !.result = (@ \o rsp.result) \o ","],
          ok |-> TRUE, err |-> NoBatch]

\* BatchResponseBuilder::append(&mut self, response), response being rsp: the builder after the
\* call and the Result (Ok(()) or Err(BatchResponse)).
append(b, rsp) ==
    LET len == Len(rsp.result) + Len(b.result) + 1 IN
    IF len > b.max_response_size
    THEN [b |-> b, ok |-> FALSE, err |-> BatchResponse_error(IdNull, InvalidRequest)]
    ELSE [b |-> [b EXCEPT !.result = (@ \o rsp.result) \o ","],
          ok |-> TRUE, err |-> NoBatch]

\* BatchResponseBuilder::is_empty
is_empty(b) == Len(b.result) <= 1

\* The mutant of finish: keeps the trailing separator.
finish_keeps_separator(b) ==
    IF Len(b.result) = 1
    THEN BatchResponse_error(IdNull, InvalidRequest)
    ELSE [result |-> b.result \o "]", success |-> TRUE]

\* BatchResponseBuilder::finish(self)
finish(b) ==
    IF Len(b.result) = 1
    THEN BatchResponse_error(IdNull, InvalidRequest)
    ELSE [result |-> Pop(b.result) \o "]", success |-> TRUE]

(***************************************************************************)
(* MethodSink over tokio::sync::mpsc                                       *)
(*                                                                         *)
(* Every clone of the sink holds a Sender of the same bounded channel: a   *)
(* list of messages and a semaphore with one permit per free slot.  A call *)
(* that needs a slot takes a permit or queues up for one, first come first *)
(* served; a released permit goes to the first waiter.  Dropping the       *)
(* Receiver closes the semaphore, fails the queued waiters and drops the   *)
(* messages still in the list.                                             *)
(***************************************************************************)
Idle == [st |-> "idle"]

\* mpsc::Sender::is_closed, as MethodSink::is_closed returns it
is_closed == rx_closed

\* The semaphore gives back one permit: to the first waiter, if there is one.
ReleasePermit ==
    IF waiters # <<>>
    THEN LET w == Head(waiters) IN
         /\ waiters' = Tail(waiters)
         /\ pc' = [pc EXCEPT ![w] = [@ EXCEPT !.st =
                       IF @ = "send_wait" THEN "send_granted" ELSE "reserve_granted"]]
         /\ UNCHANGED permits
    ELSE /\ permits' = permits + 1
         /\ UNCHANGED <<waiters, pc>>

\* The mutant of TrySend: on a full channel it queues up for a slot as send does.
TrySend_queues_up_when_full(p, msg) ==
    /\ pc[p].st = "idle"
    /\ IF is_closed
       THEN /\ ret' = [p |-> p, op |-> "try_send", res |-> "Closed", msg |-> msg,
                           closed_at_call |-> rx_closed]
            /\ UNCHANGED <<queue, permits, waiters, pc>>
       ELSE IF permits = 0
       THEN /\ waiters' = Append(waiters, p)
            /\ pc' = [pc EXCEPT ![p] = [st |-> "send_wait", msg |-> msg,
                                        closed_at_call |-> rx_closed]]
            /\ UNCHANGED <<queue, permits, ret>>
       ELSE /\ permits' = permits - 1
            /\ queue' = Append(queue, msg)
            /\ ret' = [p |-> p, op |-> "try_send", res |-> "Ok", msg |-> msg,
                           closed_at_call |-> rx_closed]
            /\ UNCHANGED <<waiters, pc>>
    /\ UNCHANGED <<writerVars, responseVars, batchVars, capacity, rx_closed>>

\* The mutant of TrySend: looks at the queued messages only, not at the slots
\* that are reserved.
TrySend_counts_queue_only(p, msg) ==
    /\ pc[p].st = "idle"
    /\ IF is_closed
       THEN /\ ret' = [p |-> p, op |-> "try_send", res |-> "Closed", msg |-> msg,
                           closed_at_call |-> rx_closed]
            /\ UNCHANGED <<queue, permits>>
       ELSE IF Len(queue) >= capacity
       THEN /\ ret' = [p |-> p, op |-> "try_send", res |-> "Full", msg |-> msg,
                           closed_at_call |-> rx_closed]
            /\ UNCHANGED <<queue, permits>>
       ELSE /\ permits' = Max(permits - 1, 0)
            /\ queue' = Append(queue, msg)
            /\ ret' = [p |-> p, op |-> "try_send", res |-> "Ok", msg |-> msg,
                           closed_at_call |-> rx_closed]
    /\ UNCHANGED <<writerVars, responseVars, batchVars, capacity, waiters, rx_closed, pc>>

\* MethodSink::try_send(msg)
TrySend(p, msg) ==
    /\ pc[p].st = "idle"
    /\ IF is_closed
       THEN /\ ret' = [p |-> p, op |-> "try_send", res |-> "Closed", msg |-> msg,
                           closed_at_call |-> rx_closed]
            /\ UNCHANGED <<queue, permits>>
       ELSE IF permits = 0
       THEN /\ ret' = [p |-> p, op |-> "try_send", res |-> "Full", msg |-> msg,
                           closed_at_call |-> rx_closed]
            /\ UNCHANGED <<queue, permits>>
       ELSE /\ permits' = permits - 1
            /\ queue' = Append(queue, msg)
            /\ ret' = [p |-> p, op |-> "try_send", res |-> "Ok", msg |-> msg,
                           closed_at_call |-> rx_closed]
    /\ UNCHANGED <<writerVars, responseVars, batchVars, capacity, waiters, rx_closed, pc>>

\* The mutant of SendCall: does not look at the closed flag.
SendCall_ignores_close(p, msg) ==
    /\ pc[p].st = "idle"
    /\ IF permits > 0
       THEN /\ permits' = permits - 1
            /\ queue' = Append(queue, msg)
            /\ ret' = [p |-> p, op |-> "send", res |-> "Ok", msg |-> msg,
                           closed_at_call |-> rx_closed]
            /\ UNCHANGED <<waiters, pc>>
       ELSE /\ waiters' = Append(waiters, p)
            /\ pc' = [pc EXCEPT ![p] = [st |-> "send_wait", msg |-> msg,
                                        closed_at_call |-> rx_closed]]
            /\ UNCHANGED <<queue, permits, ret>>
    /\ UNCHANGED <<writerVars, responseVars, batchVars, capacity, rx_closed>>

\* MethodSink::send(msg).await, up to its first suspension: fails on a closed
\* channel, takes a free slot and enqueues, or queues up for a slot.
SendCall(p, msg) ==
    /\ pc[p].st = "idle"
    /\ IF is_closed
       THEN /\ ret' = [p |-> p, op |-> "send", res |-> "Disconnected", msg |-> msg,
                           closed_at_call |-> rx_closed]
            /\ UNCHANGED <<queue, permits, waiters, pc>>
       ELSE IF permits > 0
       THEN /\ permits' = permits - 1
            /\ queue' = Append(queue, msg)
            /\ ret' = [p |-> p, op |-> "send", res |-> "Ok", msg |-> msg,
                           closed_at_call |-> rx_closed]
            /\ UNCHANGED <<waiters, pc>>
       ELSE /\ waiters' = Append(waiters, p)
            /\ pc' = [pc EXCEPT ![p] = [st |-> "send_wait", msg |-> msg,
                                        closed_at_call |-> rx_closed]]
            /\ UNCHANGED <<queue, permits, ret>>
    /\ UNCHANGED <<writerVars, responseVars, batchVars, capacity, rx_closed>>

\* The mutant of SendResume: a send woken with its slot fails all the same.
SendResume_fails_with_slot(p) ==
    /\ \/ /\ pc[p].st = "send_granted"
          /\ permits' = permits + 1
       \/ /\ pc[p].st = "send_wait"
          /\ rx_closed
          /\ UNCHANGED permits
    /\ ret' = [p |-> p, op |-> "send", res |-> "Disconnected", msg |-> pc[p].msg,
               closed_at_call |-> pc[p].closed_at_call]
    /\ pc' = [pc EXCEPT ![p] = Idle]
    /\ UNCHANGED <<writerVars, responseVars, batchVars, capacity, queue, waiters, rx_closed>>

\* A suspended send is woken: with the slot it was given it enqueues; woken by
\* the close it fails.  When the close comes after the slot was given and
\* before the task runs, the task finds either: it enqueues, or it sees the
\* closed semaphore, fails and gives the slot back.
SendResume(p) ==
    /\ \/ /\ pc[p].st = "send_granted"
          /\ queue' = Append(queue, pc[p].msg)
          /\ ret' = [p |-> p, op |-> "send", res |-> "Ok", msg |-> pc[p].msg,
                                        closed_at_call |-> pc[p].closed_at_call]
          /\ UNCHANGED permits
       \/ /\ pc[p].st = "send_granted"
          /\ rx_closed
          /\ permits' = permits + 1
          /\ ret' = [p |-> p, op |-> "send", res |-> "Disconnected",
                           msg |-> pc[p].msg,
                           closed_at_call |-> pc[p].closed_at_call]
          /\ UNCHANGED queue
       \/ /\ pc[p].st = "send_wait"
          /\ rx_closed
          /\ ret' = [p |-> p, op |-> "send", res |-> "Disconnected",
                           msg |-> pc[p].msg,
                           closed_at_call |-> pc[p].closed_at_call]
          /\ UNCHANGED <<queue, permits>>
    /\ pc' = [pc EXCEPT ![p] = Idle]
    /\ UNCHANGED <<writerVars, responseVars, batchVars, capacity, waiters, rx_closed>>

\* The mutant of ReserveCall: hands out the Permit without taking a slot.
ReserveCall_takes_no_slot(p) ==
    /\ pc[p].st = "idle"
    /\ IF is_closed
       THEN /\ ret' = [p |-> p, op |-> "reserve", res |-> "Disconnected", msg |-> "",
                           closed_at_call |-> rx_closed]
            /\ UNCHANGED <<permits, waiters, pc>>
       ELSE /\ pc' = [pc EXCEPT ![p] = [st |-> "has_permit"]]
            /\ ret' = [p |-> p, op |-> "reserve", res |-> "Permit", msg |-> "",
                           closed_at_call |-> rx_closed]
            /\ UNCHANGED <<permits, waiters>>
    /\ UNCHANGED <<writerVars, responseVars, batchVars, capacity, queue, rx_closed>>

\* MethodSink::reserve().await, up to its first suspension
ReserveCall(p) ==
    /\ pc[p].st = "idle"
    /\ IF is_closed
       THEN /\ ret' = [p |-> p, op |-> "reserve", res |-> "Disconnected", msg |-> "",
                           closed_at_call |-> rx_closed]
            /\ UNCHANGED <<permits, waiters, pc>>
       ELSE IF permits > 0
       THEN /\ permits' = permits - 1
            /\ pc' = [pc EXCEPT ![p] = [st |-> "has_permit"]]
            /\ ret' = [p |-> p, op |-> "reserve", res |-> "Permit", msg |-> "",
                           closed_at_call |-> rx_closed]
            /\ UNCHANGED waiters
       ELSE /\ waiters' = Append(waiters, p)
            /\ pc' = [pc EXCEPT ![p] = [st |-> "reserve_wait", msg |-> "",
                                        closed_at_call |-> rx_closed]]
            /\ UNCHANGED <<permits, ret>>
    /\ UNCHANGED <<writerVars, responseVars, batchVars, capacity, queue, rx_closed>>

\* A suspended reserve is woken: with its slot it returns the Permit; woken by
\* the close it fails; closed after the slot was given, either.
ReserveResume(p) ==
    /\ \/ /\ pc[p].st = "reserve_granted"
          /\ pc' = [pc EXCEPT ![p] = [st |-> "has_permit"]]
          /\ ret' = [p |-> p, op |-> "reserve", res |-> "Permit", msg |-> "",
                                        closed_at_call |-> pc[p].closed_at_call]
          /\ UNCHANGED permits
       \/ /\ pc[p].st = "reserve_granted"
          /\ rx_closed
          /\ permits' = permits + 1
          /\ pc' = [pc EXCEPT ![p] = Idle]
          /\ ret' = [p |-> p, op |-> "reserve", res |-> "Disconnected", msg |-> "",
                                        closed_at_call |-> pc[p].closed_at_call]
       \/ /\ pc[p].st = "reserve_wait"
          /\ rx_closed
          /\ pc' = [pc EXCEPT ![p] = Idle]
          /\ ret' = [p |-> p, op |-> "reserve", res |-> "Disconnected", msg |-> "",
                                        closed_at_call |-> pc[p].closed_at_call]
          /\ UNCHANGED permits
    /\ UNCHANGED <<writerVars, responseVars, batchVars, capacity, queue, waiters, rx_closed>>

\* MethodSinkPermit::send_raw(json): the reserved slot takes the message.
PermitSend(p, msg) ==
    /\ pc[p].st = "has_permit"
    /\ queue' = Append(queue, msg)
    /\ pc' = [pc EXCEPT ![p] = Idle]
    /\ ret' = [p |-> p, op |-> "send_raw", res |-> "Ok", msg |-> msg,
                                  closed_at_call |-> rx_closed]
    /\ UNCHANGED <<writerVars, responseVars, batchVars, capacity, permits, waiters, rx_closed>>

\* The mutant of PermitDrop: the slot of a dropped Permit is not given back.
PermitDrop_keeps_slot(p) ==
    /\ pc[p].st = "has_permit"
    /\ pc' = [pc EXCEPT ![p] = Idle]
    /\ ret' = [p |-> p, op |-> "drop_permit", res |-> "Ok", msg |-> "",
                                  closed_at_call |-> rx_closed]
    /\ UNCHANGED <<writerVars, responseVars, batchVars, capacity, queue, permits, waiters,
                   rx_closed>>

\* A MethodSinkPermit is dropped unused: its slot goes back to the channel.
PermitDrop(p) ==
    /\ pc[p].st = "has_permit"
    /\ IF waiters # <<>>
       THEN LET w == Head(waiters) IN
            /\ waiters' = Tail(waiters)
            /\ pc' = [pc EXCEPT ![p] = Idle,
                                ![w] = [@ EXCEPT !.st =
                                    IF @ = "send_wait" THEN "send_granted" ELSE "reserve_granted"]]
            /\ UNCHANGED permits
       ELSE /\ permits' = permits + 1
            /\ pc' = [pc EXCEPT ![p] = Idle]
            /\ UNCHANGED waiters
    /\ ret' = [p |-> p, op |-> "drop_permit", res |-> "Ok", msg |-> "",
                                  closed_at_call |-> rx_closed]
    /\ UNCHANGED <<writerVars, responseVars, batchVars, capacity, queue, rx_closed>>

\* MethodSink::closed().await, up to its first suspension
ClosedCall(p) ==
    /\ pc[p].st = "idle"
    /\ IF is_closed
       THEN /\ ret' = [p |-> p, op |-> "closed", res |-> "Ok", msg |-> "",
                           closed_at_call |-> rx_closed]
            /\ UNCHANGED pc
       ELSE /\ pc' = [pc EXCEPT ![p] = [st |-> "closed_wait", msg |-> "",
                                        closed_at_call |-> rx_closed]]
            /\ UNCHANGED ret
    /\ UNCHANGED <<writerVars, responseVars, batchVars, capacity, queue, permits, waiters, rx_closed>>

\* A suspended closed() is woken by the close.
ClosedResume(p) ==
    /\ pc[p].st = "closed_wait"
    /\ rx_closed
    /\ ret' = [p |-> p, op |-> "closed", res |-> "Ok", msg |-> "",
                                  closed_at_call |-> pc[p].closed_at_call]
    /\ pc' = [pc EXCEPT ![p] = Idle]
    /\ UNCHANGED <<writerVars, responseVars, batchVars, capacity, queue, permits, waiters, rx_closed>>

\* The consumer takes the oldest message; its slot is free again.
Recv ==
    /\ ~rx_closed
    /\ queue # <<>>
    /\ queue' = Tail(queue)
    /\ ReleasePermit
    /\ UNCHANGED <<writerVars, responseVars, batchVars, capacity, rx_closed, ret>>

\* The consumer is dropped: the channel closes, the queued waiters are failed
\* when they wake, the messages still in the list are dropped.
DropConsumer ==
    /\ ~rx_closed
    /\ rx_closed' = TRUE
    /\ waiters' = <<>>
    /\ queue' = <<>>
    /\ permits' = permits + Len(queue)
    /\ UNCHANGED <<writerVars, responseVars, batchVars, capacity, pc, ret>>

(***************************************************************************)
(* Each specification drives one component; the others are not there.      *)
(***************************************************************************)
NoWriter == writer = Consumed /\ wlog = <<>>

NoResponse == call = NoCall /\ resp = NoCall

NoBuilder ==
    /\ builder = Consumed
    /\ ctor = [kind |-> "none", limit |-> 0]
    /\ entries = <<>>
    /\ lastAppend = NoCall
    /\ rejected = FALSE
    /\ appends = 0
    /\ batch = NoBatch

NoSink ==
    /\ queue = <<>>
    /\ permits = 0
    /\ waiters = <<>>
    /\ rx_closed = TRUE
    /\ pc = <<>>
    /\ ret = NoCall
    /\ capacity = 0

NoPump ==
    /\ pump = [st |-> "none"]
    /\ upstream = [items |-> <<>>, ready |-> FALSE, all |-> <<>>]
    /\ frames = <<>>

(***************************************************************************)
(* SpecWriter: one BoundedWriter driven by any sequence of write and flush *)
(* calls, then consumed by into_bytes.                                     *)
(***************************************************************************)
RECURSIVE BytesOfLen(_)
BytesOfLen(n) ==
    IF n = 0 THEN {""} ELSE {s \o c : s \in BytesOfLen(n - 1), c \in {"a", "b"}}

WriteArgs == UNION {BytesOfLen(n) : n \in 0..MaxWriteLen}

\* One entry of wlog: the call, the buffer before and after it, and its result.
Logged(op, arg, w, r) ==
    [op |-> op, arg |-> arg, max_len |-> w.max_len, before |-> w.buf,
     after |-> r.w.buf, ok |-> r.ok, n |-> r.n]

InitWriter ==
    /\ \E c \in 0..MaxWriterCap : writer = BoundedWriter_new(c)
    /\ wlog = <<>>
    /\ NoResponse
    /\ NoBuilder /\ NoSink /\ NoPump

Write(bytes) ==
    /\ writer # Consumed
    /\ Len(wlog) < MaxWrites
    /\ LET r == write(writer, bytes) IN
        /\ writer' = r.w
        /\ wlog' = Append(wlog, Logged("write", bytes, writer, r))
    /\ UNCHANGED <<responseVars, batchVars, sinkVars, pumpVars>>

Flush ==
    /\ writer # Consumed
    /\ Len(wlog) < MaxWrites
    /\ LET r == flush(writer) IN
        /\ writer' = r.w
        /\ wlog' = Append(wlog, Logged("flush", "", writer, r))
    /\ UNCHANGED <<responseVars, batchVars, sinkVars, pumpVars>>

IntoBytes ==
    /\ writer # Consumed
    /\ wlog' = Append(wlog, [op |-> "into_bytes", arg |-> "", max_len |-> writer.max_len,
                             before |-> writer.buf, after |-> into_bytes(writer),
                             ok |-> TRUE, n |-> 0])
    /\ writer' = Consumed
    /\ UNCHANGED <<responseVars, batchVars, sinkVars, pumpVars>>

NextWriter ==
    \/ \E bytes \in WriteArgs : Write(bytes)
    \/ Flush
    \/ IntoBytes

SpecWriter == InitWriter /\ [][NextWriter]_vars

\* The write calls logged so far.
WriteCalls == {i \in DOMAIN wlog : wlog[i].op = "write"}

\* C1: the buffer of a BoundedWriter never holds more than max_len bytes after
\* any sequence of write calls; a write that would take it over max_len returns
\* the error and leaves the buffer exactly as it was, and a write that fits
\* (also after rejected ones) succeeds and appends all of its bytes.
C1_WriterBounded ==
    /\ writer # Consumed => Len(writer.buf) <= writer.max_len
    /\ \A i \in DOMAIN wlog : Len(wlog[i].after) <= wlog[i].max_len
    /\ \A i \in WriteCalls :
        LET e == wlog[i] IN
        IF Len(e.before) + Len(e.arg) > e.max_len
        THEN ~e.ok /\ e.after = e.before
        ELSE e.ok /\ e.n = Len(e.arg) /\ e.after = e.before \o e.arg

\* A write was rejected although part of it would have fitted, and a later
\* write that fits succeeded.
C1_Witness ==
    \E i, j \in WriteCalls :
        /\ i < j
        /\ ~wlog[i].ok
        /\ Len(wlog[i].before) < wlog[i].max_len
        /\ wlog[j].ok
        /\ wlog[j].arg # ""

(***************************************************************************)
(* SpecResponse: calls of MethodResponse::response on every id, result     *)
(* and limit.                                                              *)
(***************************************************************************)
Ids == {IdNull, IdNumber(1), IdStr("x")}

Results == {ResultStr(Repeat("a", n)) : n \in 0..MaxPayload} \cup {ResultBad}

InitResponse ==
    /\ NoWriter
    /\ \E id \in Ids, result \in Results, cap \in 0..MaxRespCap :
        call = [op |-> "response", id |-> id, result |-> result,
                max_response_size |-> cap]
    /\ resp = NoCall
    /\ NoBuilder /\ NoSink /\ NoPump

\* The pending call runs and returns its MethodResponse.
Respond ==
    /\ resp = NoCall
    /\ resp' = response(call.id, call.result, call.max_response_size)
    /\ UNCHANGED <<writerVars, call, batchVars, sinkVars, pumpVars>>

NextResponse == Respond

SpecResponse == InitResponse /\ [][NextResponse]_vars

\* The full result envelope of the last call, written out.
CallEnvelope ==
    "{\"jsonrpc\":\"2.0\",\"result\":\"" \o call.result.s \o "\",\"id\":"
    \o IdText(call.id) \o "}"

IsPrefix(p, t) == Len(p) <= Len(t) /\ SubSeq(t, 1, Len(p)) = p

\* C2: response(id, v, cap) returns success=true with the complete result
\* envelope as body exactly when the envelope is at most cap bytes long,
\* although the serializer writes it piece by piece; otherwise it returns
\* success=false and a body that is not a prefix of the envelope.
C2_ResponseIffFits ==
    resp # NoCall =>
        IF call.result.kind = "Str"
        THEN /\ resp.success <=> Len(CallEnvelope) <= call.max_response_size
             /\ resp.success => resp.result = CallEnvelope
             /\ ~resp.success => ~IsPrefix(resp.result, CallEnvelope)
        ELSE ~resp.success

\* The writer took the pieces of the envelope up to the colon of "result"
\* and rejected a later one.
C2_Witness ==
    /\ resp # NoCall
    /\ call.result.kind = "Str"
    /\ call.max_response_size >= Len("{\"jsonrpc\":\"2.0\",\"result\":")
    /\ call.max_response_size < Len(CallEnvelope)
    /\ ~resp.success

\* The oversized-response envelope for the last call, written out.
CallOversized ==
    "{\"jsonrpc\":\"2.0\",\"error\":{\"code\":-32702,\"message\":\"Response is too big\","
    \o "\"data\":\"Exceeded max limit of " \o Display(call.max_response_size)
    \o "\"},\"id\":" \o IdText(call.id) \o "}"

\* C3: when the result envelope is longer than cap, response(id, v, cap) yields
\* success=false and the oversized-response envelope (code -32702, data
\* "Exceeded max limit of {cap}", the same id), whose length is set by the id
\* and the digits of cap alone, not by v.
C3_OversizedFallback ==
    (resp # NoCall /\ call.result.kind = "Str"
        /\ Len(CallEnvelope) > call.max_response_size) =>
            /\ ~resp.success
            /\ resp.result = CallOversized
            /\ Len(resp.result) =
                   111 + Len(Display(call.max_response_size)) + Len(IdText(call.id))

\* An oversized result with the largest payload was replaced by the fallback.
C3_Witness ==
    /\ resp # NoCall
    /\ call.result = ResultStr(Repeat("a", MaxPayload))
    /\ call.max_response_size >= 10
    /\ Len(CallEnvelope) > call.max_response_size
    /\ resp.result = CallOversized

(***************************************************************************)
(* SpecBatch: one BatchResponseBuilder, made by new_with_limit or by the   *)
(* derived Default, driven by any sequence of append calls and consumed by *)
(* finish.  The responses appended come from MethodResponse::response or   *)
(* are MethodResponse values built from their public fields.               *)
(***************************************************************************)
\* The response calls whose results are batched.
BatchCalls ==
    {[op |-> "response", id |-> IdNumber(1), result |-> ResultStr("a"),
      max_response_size |-> 128],
     [op |-> "response", id |-> IdNumber(1), result |-> ResultStr(Repeat("a", 28)),
      max_response_size |-> 128],
     [op |-> "response", id |-> IdNull, result |-> ResultStr(""),
      max_response_size |-> 128],
     [op |-> "response", id |-> IdNumber(1), result |-> ResultStr("a"),
      max_response_size |-> 10]}

\* Bodies of MethodResponse values built directly.
BatchLiterals == {"", "1", "22"}

InitBatch ==
    /\ NoWriter
    /\ NoResponse
    /\ \/ \E limit \in 0..MaxBatchCap :
            /\ builder = new_with_limit(limit)
            /\ ctor = [kind |-> "new_with_limit", limit |-> limit]
       \/ /\ builder = BatchResponseBuilder_default
          /\ ctor = [kind |-> "default", limit |-> 0]
    /\ entries = <<>>
    /\ lastAppend = NoCall
    /\ rejected = FALSE
    /\ appends = 0
    /\ batch = NoBatch
    /\ NoSink /\ NoPump

\* builder.append(&response) with the response `m` that call `src` returned
\* (NoCall for a response built directly).
DoAppend(src, m) ==
    /\ builder # Consumed
    /\ appends < MaxAppends
    /\ LET r == append(builder, m) IN
        /\ builder' = r.b
        /\ lastAppend' = [op |-> "append", src |-> src, response |-> m,
                          before |-> builder.result, ok |-> r.ok, err |-> r.err]
        /\ entries' = IF r.ok THEN Append(entries, m.result) ELSE entries
        /\ rejected' = (rejected \/ ~r.ok)
    /\ appends' = appends + 1
    /\ UNCHANGED <<writerVars, responseVars, sinkVars, pumpVars, ctor, batch>>

AppendResponse(c) ==
    DoAppend(c, response(c.id, c.result, c.max_response_size))

AppendLiteral(body) ==
    DoAppend(NoCall, [result |-> body, success |-> TRUE])

Finish ==
    /\ builder # Consumed
    /\ batch' = finish(builder)
    /\ builder' = Consumed
    /\ UNCHANGED <<writerVars, responseVars, sinkVars, pumpVars, ctor, entries, lastAppend, rejected, appends>>

NextBatch ==
    \/ \E c \in BatchCalls : AppendResponse(c)
    \/ \E body \in BatchLiterals : AppendLiteral(body)
    \/ Finish

SpecBatch == InitBatch /\ [][NextBatch]_vars

RECURSIVE CumSize(_)
\* The cumulative size of a sequence of bodies: each body plus one separator byte.
CumSize(seq) == IF seq = <<>> THEN 0 ELSE Len(Head(seq)) + 1 + CumSize(Tail(seq))

RECURSIVE Join(_)
\* The bodies in order, separated by ','.
Join(seq) ==
    IF seq = <<>> THEN ""
    ELSE IF Len(seq) = 1 THEN Head(seq)
    ELSE Head(seq) \o "," \o Join(Tail(seq))

\* The entries the builder held when the last append was called.
EntriesBefore ==
    IF lastAppend.ok THEN SubSeq(entries, 1, Len(entries) - 1) ELSE entries

FromNewWithLimit == ctor.kind = "new_with_limit"

\* The fixed Invalid Request envelope, written out.
InvalidRequestText ==
    "{\"jsonrpc\":\"2.0\",\"error\":{\"code\":-32600,\"message\":\"Invalid request\"},\"id\":null}"

\* The oversized-response envelope for a response call c, written out.
OversizedText(c) ==
    "{\"jsonrpc\":\"2.0\",\"error\":{\"code\":-32702,\"message\":\"Response is too big\","
    \o "\"data\":\"Exceeded max limit of " \o Display(c.max_response_size)
    \o "\"},\"id\":" \o IdText(c.id) \o "}"

\* The last append was given the fallback of a response call that overflowed.
LastWasFallback ==
    /\ lastAppend # NoCall
    /\ lastAppend.src # NoCall
    /\ ~lastAppend.response.success

\* C4 as claimed: the envelope substituted on a capacity error is at most as
\* long as the limit that was exceeded, for the response fallback and for the
\* batch error.
C4_ErrorFitsCap ==
    /\ LastWasFallback =>
           Len(lastAppend.response.result) <= lastAppend.src.max_response_size
    /\ (lastAppend # NoCall /\ ~lastAppend.ok) =>
           Len(lastAppend.err.result) <= ctor.limit

\* C4 as amended: the envelope substituted on a capacity error has a size fixed
\* by its own text, not by the limit or the rejected payload: the response
\* fallback is the oversized-response envelope for the id and the limit, the
\* batch error is the Invalid Request envelope; every message is at most the
\* larger of the limit and that size.
C4_ErrorSizeFixed ==
    /\ (lastAppend # NoCall /\ lastAppend.src # NoCall) =>
           Len(lastAppend.response.result)
               <= Max(lastAppend.src.max_response_size, Len(OversizedText(lastAppend.src)))
    /\ LastWasFallback => lastAppend.response.result = OversizedText(lastAppend.src)
    /\ (lastAppend # NoCall /\ ~lastAppend.ok) =>
           lastAppend.err = [result |-> InvalidRequestText, success |-> FALSE]
    /\ batch # NoBatch =>
           Len(batch.result) <= Max(ctor.limit, Len(InvalidRequestText))

\* A response overflowed its limit and its fallback overflowed the batch; both
\* substituted envelopes are longer than the limits that were exceeded.
C4_Witness ==
    /\ LastWasFallback
    /\ Len(lastAppend.response.result) > lastAppend.src.max_response_size
    /\ ~lastAppend.ok
    /\ FromNewWithLimit
    /\ Len(lastAppend.err.result) > ctor.limit

\* C5 as claimed: on a builder from new_with_limit(cap), an append succeeds
\* whenever the cumulative size of the entries with it (each body plus one
\* separator byte) is at most cap, and finish then yields success=true with
\* '[' entries joined by ',' ']'.
C5_CumulativeFits ==
    /\ (FromNewWithLimit /\ lastAppend # NoCall
            /\ CumSize(EntriesBefore) + Len(lastAppend.response.result) + 1 <= ctor.limit)
           => lastAppend.ok
    /\ (FromNewWithLimit /\ batch # NoBatch /\ ~rejected /\ entries # <<>>)
           => batch = [result |-> "[" \o Join(entries) \o "]", success |-> TRUE]

\* C5 as amended: the opening '[' counts too: an append succeeds whenever one
\* byte plus the cumulative size of the entries with it is at most cap, and
\* finish after at least one entry yields success=true with '[' entries joined
\* by ',' ']'.
C5_CumulativePlusOpenFits ==
    /\ (FromNewWithLimit /\ lastAppend # NoCall
            /\ 1 + CumSize(EntriesBefore) + Len(lastAppend.response.result) + 1 <= ctor.limit)
           => lastAppend.ok
    /\ (FromNewWithLimit /\ batch # NoBatch /\ ~rejected /\ entries # <<>>)
           => batch = [result |-> "[" \o Join(entries) \o "]", success |-> TRUE]

\* Two different entries filled the limit exactly and finish returned the array.
C5_Witness ==
    /\ FromNewWithLimit
    /\ ~rejected
    /\ Len(entries) >= 2
    /\ entries[1] # entries[2]
    /\ 1 + CumSize(entries) = ctor.limit
    /\ batch # NoBatch
    /\ batch.success

\* C6: append succeeds exactly when accumulated length + body length + 1 is at
\* most the limit; the n-th of n entries of one length L is accepted exactly
\* when the limit is at least 2 + n*L + (n-1); a first entry of 37 bytes is
\* accepted exactly when the limit is at least 39.
C6_AppendIffFits ==
    lastAppend # NoCall =>
        LET L == Len(lastAppend.response.result)
            n == Len(EntriesBefore) + 1
        IN  /\ lastAppend.ok <=> Len(lastAppend.before) + L + 1 <= ctor.limit
            /\ (FromNewWithLimit /\ \A i \in DOMAIN EntriesBefore : Len(EntriesBefore[i]) = L)
                   => (lastAppend.ok <=> ctor.limit >= 2 + n * L + (n - 1))
            /\ (FromNewWithLimit /\ L = 37 /\ n = 1)
                   => (lastAppend.ok <=> ctor.limit >= 39)

\* Two 37-byte responses were accepted under the limit 2 + 37*2 + 1.
C6_Witness ==
    /\ FromNewWithLimit
    /\ ctor.limit = 2 + 37 * 2 + 1
    /\ Len(entries) = 2
    /\ \A i \in DOMAIN entries : Len(entries[i]) = 37
    /\ lastAppend.ok
    /\ batch # NoBatch
    /\ batch.result = "[{\"jsonrpc\":\"2.0\",\"result\":\"a\",\"id\":1},{\"jsonrpc\":\"2.0\",\"result\":\"a\",\"id\":1}]"

\* C7 as claimed: for every limit, 0 and 1 included, a builder from
\* new_with_limit never accumulates more than the limit, and a successful
\* batch body is at most the limit long.
C7_WithinCap ==
    FromNewWithLimit =>
        /\ builder # Consumed => Len(builder.result) <= ctor.limit
        /\ (batch # NoBatch /\ batch.success) => Len(batch.result) <= ctor.limit

\* C7 as amended: the same for every limit of at least 1; with the limit 0 the
\* accumulator holds its one opening byte and no append succeeds; a successful
\* batch body is at most the limit long for every limit.
C7_WithinCapFromOne ==
    FromNewWithLimit =>
        /\ (builder # Consumed /\ ctor.limit >= 1) => Len(builder.result) <= ctor.limit
        /\ (builder # Consumed /\ ctor.limit = 0) => builder.result = "["
        /\ ctor.limit = 0 => entries = <<>>
        /\ (batch # NoBatch /\ batch.success) => Len(batch.result) <= ctor.limit

\* A batch of two entries reached its limit exactly.
C7_Witness ==
    /\ FromNewWithLimit
    /\ Len(entries) >= 2
    /\ batch # NoBatch
    /\ batch.success
    /\ Len(batch.result) = ctor.limit

\* C8 as claimed: a rejected append returns the Invalid Request batch error,
\* the entries accumulated before it are discarded, and no later finish on
\* that builder returns a successful array.
C8_RejectAbortsBatch ==
    /\ (lastAppend # NoCall /\ ~lastAppend.ok) =>
           lastAppend.err = [result |-> InvalidRequestText, success |-> FALSE]
    /\ (lastAppend # NoCall /\ ~lastAppend.ok /\ builder # Consumed) => is_empty(builder)
    /\ (rejected /\ batch # NoBatch) => ~batch.success

\* C9 as claimed: finish on a builder without a successful append returns the
\* Invalid Request envelope with success=false, however the builder was made,
\* and is_empty is true on exactly those builders.
C9_EmptyFinishIsError ==
    /\ (batch # NoBatch /\ entries = <<>>) =>
           batch = [result |-> InvalidRequestText, success |-> FALSE]
    /\ builder # Consumed => (is_empty(builder) <=> entries = <<>>)

(***************************************************************************)
(* SpecSink: the clones of one MethodSink and the consumer of its channel, *)
(* in every interleaving.                                                  *)
(***************************************************************************)
Producers == 1..NumProducers

Msgs == {"m1", "m2"}

NoRet == [p |-> 0, op |-> "none", res |-> "none", msg |-> "", closed_at_call |-> FALSE]

InitSink ==
    /\ NoWriter
    /\ NoResponse
    /\ NoBuilder
    /\ NoPump
    /\ queue = <<>>
    /\ capacity \in 1..MaxChannel
    /\ permits = capacity
    /\ waiters = <<>>
    /\ rx_closed = FALSE
    /\ pc = [p \in Producers |-> Idle]
    /\ ret = NoRet

NextSink ==
    \/ \E p \in Producers, msg \in Msgs : TrySend(p, msg) /\ UNCHANGED pumpVars
    \/ \E p \in Producers, msg \in Msgs : SendCall(p, msg) /\ UNCHANGED pumpVars
    \/ \E p \in Producers : SendResume(p) /\ UNCHANGED pumpVars
    \/ \E p \in Producers : ReserveCall(p) /\ UNCHANGED pumpVars
    \/ \E p \in Producers : ReserveResume(p) /\ UNCHANGED pumpVars
    \/ \E p \in Producers, msg \in Msgs : PermitSend(p, msg) /\ UNCHANGED pumpVars
    \/ \E p \in Producers : PermitDrop(p) /\ UNCHANGED pumpVars
    \/ \E p \in Producers : ClosedCall(p) /\ UNCHANGED pumpVars
    \/ \E p \in Producers : ClosedResume(p) /\ UNCHANGED pumpVars
    \/ Recv /\ UNCHANGED pumpVars
    \/ DropConsumer /\ UNCHANGED pumpVars

SpecSink == InitSink /\ [][NextSink]_vars

\* C10: closing is permanent and every clone sees it: from a state in which
\* the consumer was dropped, is_closed stays true, and a send, a reserve or a
\* closed call made by any clone completes in that step, send and reserve with
\* the disconnect error and without enqueuing or taking a slot.
C10_ClosedIsPermanent ==
    [][rx_closed =>
        /\ rx_closed'
        /\ is_closed'
        /\ \A p \in Producers :
            /\ (\E msg \in Msgs : SendCall(p, msg)) =>
                   /\ ret'.p = p /\ ret'.op = "send" /\ ret'.res = "Disconnected"
                   /\ pc'[p] = Idle
                   /\ queue' = queue /\ permits' = permits
            /\ ReserveCall(p) =>
                   /\ ret'.p = p /\ ret'.op = "reserve" /\ ret'.res = "Disconnected"
                   /\ pc'[p] = Idle
                   /\ queue' = queue /\ permits' = permits
            /\ ClosedCall(p) =>
                   /\ ret'.p = p /\ ret'.op = "closed"
                   /\ pc'[p] = Idle]_vars

\* After the consumer was dropped with a slot still free, a send made by the
\* second clone failed with the disconnect error.
C10_Witness ==
    /\ rx_closed
    /\ permits > 0
    /\ ret.p = 2
    /\ ret.op = "send"
    /\ ret.closed_at_call
    /\ ret.res = "Disconnected"

\* The producers holding a Permit that reserve returned.
PermitHolders == {p \in Producers : pc[p].st = "has_permit"}

\* C11: a producer that holds a Permit can always send through it, whatever
\* the other producers did to the channel since the reservation: the send is
\* enabled in every state in which the Permit is held, and it completes in
\* that one step, leaving the producer idle with the message enqueued last,
\* without taking a further slot and without the list of queued messages
\* outgrowing the capacity of the channel.
C11_PermitSendsAtOnce ==
    [][\A p \in PermitHolders : \A msg \in Msgs :
          /\ ENABLED PermitSend(p, msg)
          /\ PermitSend(p, msg) =>
                 /\ pc'[p] = Idle
                 /\ ret' = [p |-> p, op |-> "send_raw", res |-> "Ok", msg |-> msg,
                            closed_at_call |-> rx_closed]
                 /\ queue' = Append(queue, msg)
                 /\ permits' = permits
                 /\ Len(queue') <= capacity]_vars

\* The second clone sent through its Permit while the channel had no free
\* slot and the first clone was suspended in send waiting for one.
C11_Witness ==
    /\ ret.p = 2 /\ ret.op = "send_raw" /\ ret.res = "Ok"
    /\ ~rx_closed
    /\ permits = 0
    /\ Len(queue) = capacity
    /\ queue[Len(queue)] = ret.msg
    /\ pc[1].st = "send_wait"

\* C12 as claimed: no send through a Permit happens after the channel has
\* closed, so no message committed through a Permit is lost: whenever the
\* last completed call is a send_raw, the consumer had not been dropped when
\* it was made.
C12_NoPermitSendAfterClose ==
    ret.op = "send_raw" => ~ret.closed_at_call

(***************************************************************************)
(* SpecSinkLive: SpecSink under the scheduling of the runtime: a task that *)
(* was woken (by a slot handed to it, or by the close) runs again.         *)
(***************************************************************************)
FairSink ==
    \A p \in Producers :
        /\ WF_vars(SendResume(p) /\ UNCHANGED pumpVars)
        /\ WF_vars(ReserveResume(p) /\ UNCHANGED pumpVars)
        /\ WF_vars(ClosedResume(p) /\ UNCHANGED pumpVars)

SpecSinkLive == InitSink /\ [][NextSink]_vars /\ FairSink

\* C13: send fails only on a closed channel: the last completed send returned
\* the disconnect error only if the consumer was dropped.  A send suspended
\* on a full channel is given the slot the consumer frees when it is the first
\* in line, and once it has a slot, or once the consumer is dropped, it
\* completes: with Ok and its message enqueued last while the channel is
\* open, with the disconnect error only when the channel is closed.
C13_SendFailsOnlyClosed ==
    /\ [](ret.op = "send" /\ ret.res = "Disconnected" => rx_closed)
    /\ [][\A p \in Producers :
            /\ (pc[p].st = "send_wait" /\ ~rx_closed /\ Head(waiters) = p
                    /\ Len(queue') < Len(queue)) =>
                   pc'[p].st = IF rx_closed' THEN "send_wait" ELSE "send_granted"
            /\ (pc[p].st = "send_granted" /\ ~rx_closed /\ pc'[p] # pc[p]) =>
                   /\ pc'[p] = Idle
                   /\ ret'.p = p /\ ret'.op = "send" /\ ret'.res = "Ok"
                   /\ queue' = Append(queue, pc[p].msg)
            /\ (pc[p].st = "send_wait" /\ rx_closed /\ pc'[p] # pc[p]) =>
                   /\ pc'[p] = Idle
                   /\ ret'.p = p /\ ret'.op = "send" /\ ret'.res = "Disconnected"
                   /\ queue' = queue]_vars
    /\ \A p \in Producers :
        (pc[p].st = "send_granted" \/ (pc[p].st = "send_wait" /\ rx_closed))
            ~> (pc[p].st = "idle")

\* The first clone, suspended in send on a full channel, was given the slot
\* of the message the consumer took, behind which its own will be enqueued.
C13_Witness ==
    /\ pc[1].st = "send_granted"
    /\ ~rx_closed
    /\ permits = 0
    /\ Len(queue) < capacity

\* The producers that hold a slot of the channel without a message in it yet:
\* a Permit, or the slot handed to a suspended send or reserve.
SlotHolders ==
    {p \in Producers : pc[p].st \in {"has_permit", "send_granted", "reserve_granted"}}

\* C14: try_send can be called by an idle clone in every state of the channel
\* and completes in that step, leaving the clone idle.  On a closed channel,
\* and on an open one whose slots are all queued or reserved, it fails (Closed,
\* Full), leaves the queue and the free slots as they were and hands back the
\* message it was given; otherwise it returns Ok with the message enqueued last.
C14_TrySendNeverSuspends ==
    [][\A p \in Producers : \A msg \in Msgs :
          pc[p].st = "idle" =>
              /\ ENABLED TrySend(p, msg)
              /\ TrySend(p, msg) =>
                     /\ pc'[p] = Idle
                     /\ waiters' = waiters
                     /\ ret'.p = p /\ ret'.op = "try_send" /\ ret'.msg = msg
                     /\ IF rx_closed
                        THEN ret'.res = "Closed" /\ queue' = queue /\ permits' = permits
                        ELSE IF Len(queue) + Cardinality(SlotHolders) = capacity
                        THEN ret'.res = "Full" /\ queue' = queue /\ permits' = permits
                        ELSE ret'.res = "Ok" /\ queue' = Append(queue, msg)]_vars

\* The first clone's try_send of "m2" failed with Full on an open channel
\* whose queue is empty: the slot is reserved by the Permit of the second.
C14_Witness ==
    /\ ret = [p |-> 1, op |-> "try_send", res |-> "Full", msg |-> "m2",
              closed_at_call |-> FALSE]
    /\ ~rx_closed
    /\ queue = <<>>
    /\ pc[2].st = "has_permit"

\* C15: a Permit is used up by the one send_raw or by the drop: either leaves
\* its holder idle, and a clone that holds no Permit cannot send_raw.  A drop
\* enqueues nothing and gives the slot back: to the producer suspended first
\* in line for capacity, which then runs on (its send completes, its reserve
\* returns), or, with nobody waiting, to the free slots, from which the next
\* try_send, send or reserve of another clone on the open channel takes it.
C15_DroppedPermitFreesSlot ==
    /\ [](\A p \in Producers \ PermitHolders : \A msg \in Msgs :
              ~ENABLED PermitSend(p, msg))
    /\ []((~rx_closed /\ permits > 0) =>
              \A q \in Producers :
                  pc[q].st = "idle" =>
                      /\ ENABLED (TrySend(q, "m1") /\ ret'.res = "Ok")
                      /\ ENABLED (SendCall(q, "m1") /\ ret'.res = "Ok")
                      /\ ENABLED (ReserveCall(q) /\ ret'.res = "Permit"))
    /\ [][\A p \in PermitHolders :
            /\ (\E msg \in Msgs : PermitSend(p, msg)) => pc'[p] = Idle
            /\ PermitDrop(p) =>
                   /\ pc'[p] = Idle
                   /\ queue' = queue
                   /\ IF waiters = <<>>
                      THEN permits' = permits + 1
                      ELSE /\ permits' = permits
                           /\ waiters' = Tail(waiters)
                           /\ pc'[Head(waiters)].st \in {"send_granted", "reserve_granted"}]_vars
    /\ \A q \in Producers :
           /\ (pc[q].st = "send_granted") ~> (pc[q].st = "idle")
           /\ (pc[q].st = "reserve_granted") ~> (pc[q].st \in {"has_permit", "idle"})

\* The second clone dropped its Permit unused and the slot went to the first
\* clone, which was suspended in reserve on the full channel.
C15_Witness ==
    /\ ret.p = 2 /\ ret.op = "drop_permit"
    /\ ~rx_closed
    /\ pc[1].st = "reserve_granted"
    /\ permits = 0
    /\ queue = <<>>

(***************************************************************************)
(* The subscription tasks of tests/tests/helpers.rs over a MethodSink:     *)
(* pipe_from_stream, which forwards the items of a stream, and the         *)
(* subscribe_noop handler, which accepts and closes with an error.  The    *)
(* task is the first clone of the sink.                                    *)
(***************************************************************************)
Pump == 1

MaxItems == 2          \* the stream yields 0..MaxItems items, then ends
MaxPumpChannel == 2    \* channel capacities 1..MaxPumpChannel in SpecPump

\* SubscriptionSink::build_message(&item): the notification carrying the item
ItemFrame(item) ==
    "{\"jsonrpc\":\"2.0\",\"method\":\"n\",\"params\":{\"subscription\":1,\"result\":"
    \o Display(item) \o "}}"

\* The terminal frame of SubscriptionSink::close: SubscriptionClosed::Success,
\* or the error object the handler gave.
CloseFrame(how) ==
    IF how = "success"
    THEN "{\"jsonrpc\":\"2.0\",\"method\":\"n\",\"params\":{\"subscription\":1,\"result\":\"Subscription was completed by the server successfully\"}}"
    ELSE "{\"jsonrpc\":\"2.0\",\"method\":\"n\",\"params\":{\"subscription\":1,\"error\":{\"code\":-32004,\"message\":\"Server closed the stream because it was lazy\"}}}"

\* The task has returned, and why.
Returned(reason) == [pump EXCEPT !.st = "done", !.reason = reason, !.item = 0]

\* pending.accept().await: the sink, or the rejection.  pipe_from_stream
\* returns on the rejection; the noop handler unwraps it and its task ends.
PumpAccept ==
    /\ pump.st = "accept"
    /\ \/ pump' = [pump EXCEPT !.st = IF pump.kind = "pipe" THEN "select" ELSE "close",
                                !.how = IF pump.kind = "pipe" THEN "success" ELSE "error"]
       \/ pump' = Returned("rejected")
    /\ UNCHANGED <<writerVars, responseVars, batchVars, sinkVars, upstream, frames>>

\* stream.next() of IntervalStream.zip(iter(..)): with items left the next one
\* is there once the interval has fired; with none left the zip ends without
\* waiting for the interval.
NextIsReady == upstream.items = <<>> \/ upstream.ready

\* The mutant of PumpSelect: polls the stream first, the sink second.
PumpSelect_stream_first ==
    /\ pump.st = "select"
    /\ IF NextIsReady
       THEN IF upstream.items # <<>>
            THEN /\ pump' = [pump EXCEPT !.st = "send", !.item = Head(upstream.items)]
                 /\ upstream' = [upstream EXCEPT !.items = Tail(@), !.ready = FALSE]
            ELSE /\ pump' = [pump EXCEPT !.st = "close"]
                 /\ UNCHANGED upstream
       ELSE /\ is_closed
            /\ pump' = Returned("closed")
            /\ UNCHANGED upstream
    /\ UNCHANGED <<writerVars, responseVars, batchVars, sinkVars, frames>>

\* The mutant of PumpSelect: waits for the stream only.
PumpSelect_stream_only ==
    /\ pump.st = "select"
    /\ NextIsReady
    /\ IF is_closed
       THEN /\ pump' = Returned("closed")
            /\ UNCHANGED upstream
       ELSE IF upstream.items # <<>>
       THEN /\ pump' = [pump EXCEPT !.st = "send", !.item = Head(upstream.items)]
            /\ upstream' = [upstream EXCEPT !.items = Tail(@), !.ready = FALSE]
       ELSE /\ pump' = [pump EXCEPT !.st = "close"]
            /\ UNCHANGED upstream
    /\ UNCHANGED <<writerVars, responseVars, batchVars, sinkVars, frames>>

\* One poll of the biased select! that completes: sink.closed() is polled
\* first and returns; otherwise stream.next() is polled and, when ready, gives
\* the next item or the end of the stream.  With neither ready the task stays
\* suspended.
PumpSelect ==
    /\ pump.st = "select"
    /\ IF is_closed
       THEN /\ pump' = Returned("closed")
            /\ UNCHANGED upstream
       ELSE /\ NextIsReady
            /\ IF upstream.items # <<>>
               THEN /\ pump' = [pump EXCEPT !.st = "send", !.item = Head(upstream.items)]
                    /\ upstream' = [upstream EXCEPT !.items = Tail(@), !.ready = FALSE]
               ELSE /\ pump' = [pump EXCEPT !.st = "close"]
                    /\ UNCHANGED upstream
    /\ UNCHANGED <<writerVars, responseVars, batchVars, sinkVars, frames>>

\* What the task does with the outcome of sink.send(msg): suspended, it
\* waits; on Ok the item is out and the loop goes round; on Err it returns.
AfterSend ==
    IF pc'[Pump].st = "send_wait"
    THEN /\ pump' = [pump EXCEPT !.st = "send_wait"]
         /\ UNCHANGED frames
    ELSE IF ret'.res = "Ok"
    THEN /\ pump' = [pump EXCEPT !.st = "select", !.item = 0]
         /\ frames' = Append(frames, [kind |-> "item", item |-> pump.item])
    ELSE /\ pump' = Returned("send_failed")
         /\ UNCHANGED frames

\* The mutant of PumpSend: on a full channel the item is dropped.
PumpSend_drops_when_full ==
    /\ pump.st = "send"
    /\ IF ~is_closed /\ permits = 0
       THEN /\ pump' = [pump EXCEPT !.st = "select", !.item = 0]
            /\ UNCHANGED <<writerVars, responseVars, batchVars, sinkVars, frames>>
       ELSE /\ SendCall(Pump, ItemFrame(pump.item))
            /\ AfterSend
    /\ UNCHANGED upstream

\* sink.send(build_message(&item)).await, up to its first suspension
PumpSend ==
    /\ pump.st = "send"
    /\ SendCall(Pump, ItemFrame(pump.item))
    /\ AfterSend
    /\ UNCHANGED upstream

\* The suspended sink.send is woken.
PumpSendResume ==
    /\ pump.st = "send_wait"
    /\ SendResume(Pump)
    /\ AfterSend
    /\ UNCHANGED upstream

\* What the task does with the outcome of sink.close(..): the result is
\* ignored and the task returns.
AfterClose ==
    IF pc'[Pump].st = "send_wait"
    THEN /\ pump' = [pump EXCEPT !.st = "close_wait"]
         /\ UNCHANGED frames
    ELSE /\ pump' = Returned(IF pump.how = "success" THEN "exhausted" ELSE "lazy")
         /\ frames' = IF ret'.res = "Ok"
                       THEN Append(frames, [kind |-> "close", how |-> pump.how])
                       ELSE frames

\* The mutant of PumpClose: after the terminal frame the loop goes round.
PumpClose_loops ==
    /\ pump.st = "close"
    /\ SendCall(Pump, CloseFrame(pump.how))
    /\ IF pc'[Pump].st = "send_wait"
       THEN /\ pump' = [pump EXCEPT !.st = "close_wait"]
            /\ UNCHANGED frames
       ELSE IF ret'.res = "Ok"
       THEN /\ pump' = [pump EXCEPT !.st = "select"]
            /\ frames' = Append(frames, [kind |-> "close", how |-> pump.how])
       ELSE /\ pump' = Returned("send_failed")
            /\ UNCHANGED frames
    /\ UNCHANGED upstream

\* sink.close(SubscriptionClosed::Success).await at the end of the stream,
\* sink.close(err).await in the noop handler: the terminal frame is sent as
\* any message is, up to the first suspension.
PumpClose ==
    /\ pump.st = "close"
    /\ SendCall(Pump, CloseFrame(pump.how))
    /\ AfterClose
    /\ UNCHANGED upstream

\* The suspended sink.close is woken.
PumpCloseResume ==
    /\ pump.st = "close_wait"
    /\ SendResume(Pump)
    /\ AfterClose
    /\ UNCHANGED upstream

\* The stream's interval fires (again): the next item, if any, is ready.
UpstreamTick ==
    /\ ~upstream.ready
    /\ upstream' = [upstream EXCEPT !.ready = TRUE]
    /\ UNCHANGED <<writerVars, responseVars, batchVars, sinkVars, pump, frames>>

(***************************************************************************)
(* SpecPump: one subscription task, the stream it reads and the consumer   *)
(* of the channel it writes to, in every interleaving.                     *)
(***************************************************************************)
RECURSIVE UpTo(_)
UpTo(n) == IF n = 0 THEN <<>> ELSE Append(UpTo(n - 1), n)

InitPump ==
    /\ NoWriter
    /\ NoResponse
    /\ NoBuilder
    /\ queue = <<>>
    /\ capacity \in 1..MaxPumpChannel
    /\ permits = capacity
    /\ waiters = <<>>
    /\ rx_closed = FALSE
    /\ pc = [p \in Producers |-> Idle]
    /\ ret = NoRet
    /\ \E kind \in {"pipe", "noop"} :
           /\ pump = [st |-> "accept", kind |-> kind, how |-> "", item |-> 0, reason |-> ""]
           /\ \E n \in 0..(IF kind = "pipe" THEN MaxItems ELSE 0) :
                  upstream = [items |-> UpTo(n), ready |-> kind = "pipe", all |-> UpTo(n)]
    /\ frames = <<>>

NextPump ==
    \/ PumpAccept
    \/ PumpSelect
    \/ PumpSend
    \/ PumpSendResume
    \/ PumpClose
    \/ PumpCloseResume
    \/ UpstreamTick
    \/ Recv /\ UNCHANGED pumpVars
    \/ DropConsumer /\ UNCHANGED pumpVars

SpecPump == InitPump /\ [][NextPump]_vars

\* C16: once the sink is closed the pump takes no further item from the
\* stream; polled at its select with the sink closed, it returns by the closed
\* branch, also when the next item (or the end of the stream) is ready, and
\* that step sends nothing; after the close a frame is recorded as sent only
\* by the completion of a send that had been handed its slot before.
C16_ClosedWinsTie ==
    [][rx_closed =>
          /\ upstream'.items = upstream.items
          /\ (pump.st = "select" /\ pump' # pump) =>
                 /\ pump' = Returned("closed")
                 /\ frames' = frames
                 /\ queue' = queue
          /\ frames' # frames => pc[Pump].st = "send_granted"]_vars

\* The pump returned by the closed branch while the next item of the stream
\* was ready and left it there; nothing was sent.
C16_Witness ==
    /\ pump.st = "done" /\ pump.reason = "closed"
    /\ rx_closed
    /\ upstream.ready
    /\ upstream.items = upstream.all
    /\ upstream.items # <<>>
    /\ frames = <<>>

\* The positions of the terminal frames among the frames sent.
CloseFrames == {i \in DOMAIN frames : frames[i].kind = "close"}

\* C17: of the frames a subscription task sent, at most one is a terminal
\* frame and it is the last one; a task that sent it has returned; a task
\* whose accept was rejected sent no frame at all.
C17_OneTerminalFrame ==
    /\ Cardinality(CloseFrames) <= 1
    /\ \A i \in CloseFrames : i = Len(frames)
    /\ CloseFrames # {} => pump.st = "done"
    /\ (pump.st = "done" /\ pump.reason = "rejected") => (frames = <<>> /\ queue = <<>>)
    /\ pump.st = "done" => pump.reason \in {"rejected", "closed", "send_failed",
                                            "exhausted", "lazy"}

\* pipe_from_stream sent an item and then the terminal frame and returned.
C17_Witness ==
    /\ pump.st = "done" /\ pump.reason = "exhausted"
    /\ Len(frames) >= 2
    /\ frames[Len(frames)] = [kind |-> "close", how |-> "success"]
    /\ frames[1].kind = "item"

(***************************************************************************)
(* SpecPumpLive: SpecPump under the scheduling of the runtime: the task    *)
(* runs when it can take a step.  Nothing makes the stream yield or the    *)
(* consumer receive.                                                       *)
(***************************************************************************)
FairPump ==
    /\ WF_vars(PumpAccept)
    /\ WF_vars(PumpSelect)
    /\ WF_vars(PumpSend)
    /\ WF_vars(PumpSendResume)
    /\ WF_vars(PumpClose)
    /\ WF_vars(PumpCloseResume)

SpecPumpLive == InitPump /\ [][NextPump]_vars /\ FairPump

\* C19: once the sink is closed the subscription task returns, wherever it
\* was: waiting in the select for an item that never comes, suspended in send
\* or close on the full channel, or about to accept.
C19_ClosedSinkEndsPump ==
    rx_closed ~> (pump.st = "done")

\* The pump returned by the closed branch with the stream's next item still
\* not ready.
C19_Witness ==
    /\ pump.st = "done" /\ pump.reason = "closed"
    /\ rx_closed
    /\ ~upstream.ready
    /\ upstream.items # <<>>
    /\ frames # <<>>

(***************************************************************************)
(* SpecPumpYields: SpecPumpLive with a stream that yields: its interval    *)
(* fires again while it is waited for.  Nothing makes the consumer         *)
(* receive.                                                                *)
(***************************************************************************)
SpecPumpYields == InitPump /\ [][NextPump]_vars /\ FairPump /\ WF_vars(UpstreamTick)

\* The text of a frame, and the frames the stream's items make, in order,
\* followed by the success-close frame.
FrameText(f) == IF f.kind = "item" THEN ItemFrame(f.item) ELSE CloseFrame(f.how)

ItemFrames == [i \in DOMAIN upstream.all |-> [kind |-> "item", item |-> upstream.all[i]]]

ExpectedFrames == Append(ItemFrames, [kind |-> "close", how |-> "success"])

\* pipe_from_stream has sent every item and the terminal frame and returned.
DeliveredAll ==
    /\ pump.st = "done" /\ pump.reason = "exhausted"
    /\ upstream.items = <<>>
    /\ frames = ExpectedFrames

\* The run is not one the statement is about: the task is the noop handler,
\* its accept was rejected, or the sink did not stay open.
NotPiping ==
    \/ pump.kind = "noop"
    \/ pump.st = "done" /\ pump.reason = "rejected"
    \/ rx_closed

\* What pipe_from_stream has sent is at every moment the beginning of the
\* item frames in the stream's order followed by the one success-close frame,
\* the close frame is sent only after all the items and the task has
\* returned once it is sent; if the task has returned with the sink open,
\* everything was sent; and the open channel holds the texts of the last
\* frames sent, oldest first.
FramesInOrder ==
    /\ pump.kind = "pipe" =>
           /\ Len(frames) <= Len(ExpectedFrames)
           /\ frames = SubSeq(ExpectedFrames, 1, Len(frames))
           /\ Len(frames) = Len(ExpectedFrames) => pump.st = "done"
    /\ (pump.st = "done" /\ ~NotPiping) => DeliveredAll
    /\ ~rx_closed =>
           /\ Len(queue) <= Len(frames)
           /\ \A i \in DOMAIN queue :
                  queue[i] = FrameText(frames[Len(frames) - Len(queue) + i])

\* C18 as claimed: with a stream that yields its items and ends and a sink
\* that stays open, pipe_from_stream sends the item frames in the stream's
\* order, then the one success-close frame, and returns.
C18_DeliversAllSinkOpen ==
    /\ []FramesInOrder
    /\ <>(NotPiping \/ DeliveredAll)

\* C18: as above, for the runs in which the consumer keeps taking the frames
\* out of the channel (the channel is empty again and again): then
\* pipe_from_stream sends the item frames in the stream's order, then the one
\* success-close frame, and returns.  In the other runs it has sent a
\* beginning of these frames, in order.
C18_DeliversAllWhenServed ==
    /\ []FramesInOrder
    /\ ([]<>(queue = <<>>) => <>(NotPiping \/ DeliveredAll))

\* The stream had two items and the channel one slot; the pump, which had to
\* wait for the consumer, sent both items and the terminal frame to the open
\* sink and returned, the consumer still having the last frame to take.
C18_Witness ==
    /\ DeliveredAll
    /\ pump.kind = "pipe"
    /\ ~rx_closed
    /\ capacity = 1
    /\ Len(upstream.all) = 2
    /\ Len(frames) = 3
    /\ queue = <<CloseFrame("success")>>

\* The channel of two slots holds two frames the pump sent, oldest first.
C18_QueueHoldsTwo ==
    /\ ~rx_closed
    /\ pump.kind = "pipe"
    /\ Len(queue) = 2
    /\ queue = <<ItemFrame(1), ItemFrame(2)>>

\* The bytes given to the write calls logged so far, in call order, and the
\* capacity the writer was made with.
RECURSIVE GivenUpTo(_)
GivenUpTo(i) ==
    IF i = 0 THEN ""
    ELSE GivenUpTo(i - 1) \o (IF wlog[i].op = "write" THEN wlog[i].arg ELSE "")

Given == GivenUpTo(Len(wlog))

WriterCap == IF writer # Consumed THEN writer.max_len ELSE wlog[Len(wlog)].max_len

\* C20: when the bytes given to the write calls made on a writer add up to
\* at most its capacity, every one of these calls returned Ok with the number
\* of bytes it was given, the buffer is their concatenation in call order,
\* and into_bytes returns exactly that concatenation.
C20_WriteThenReadBack ==
    Len(Given) <= WriterCap =>
        /\ \A i \in WriteCalls : wlog[i].ok /\ wlog[i].n = Len(wlog[i].arg)
        /\ writer # Consumed => writer.buf = Given
        /\ \A i \in DOMAIN wlog : wlog[i].op = "into_bytes" => wlog[i].after = Given

\* Two writes of different bytes filled a writer of capacity 4 exactly and
\* into_bytes returned the four bytes.
C20_Witness ==
    /\ writer = Consumed
    /\ Len(wlog) = 3
    /\ wlog[1].op = "write" /\ wlog[1].arg = "ab"
    /\ wlog[2].op = "write" /\ wlog[2].arg = "ba"
    /\ wlog[3].op = "into_bytes" /\ wlog[3].after = "abba"
    /\ wlog[3].max_len = 4

\* C21: in every state of the channel the queued messages plus the Permits
\* held and not yet used are at most the capacity the channel was created
\* with; counted with the slots handed to suspended calls that have not run
\* yet and the free slots, they are exactly the capacity.
C21_QueuedPlusPermitsWithinCapacity ==
    /\ Len(queue) + Cardinality(PermitHolders) <= capacity
    /\ Len(queue) + Cardinality(SlotHolders) + permits = capacity
    /\ permits >= 0

\* The channel is full of queued messages, the last of them sent by the
\* first clone through its Permit, and the second clone is suspended in
\* reserve.
C21_Witness ==
    /\ ~rx_closed
    /\ Len(queue) = capacity
    /\ ret.p = 1 /\ ret.op = "send_raw"
    /\ pc[2].st = "reserve_wait"

====
